---- MODULE Spec2Model ----
(***************************************************************************)
(* The assessment authoring handler of src/server.js,                      *)
(* app.post('/teacher/create-assessment') (lines 341-402), and the store   *)
(* rows it writes.                                                         *)
(*                                                                         *)
(* A request is handled in segments that run without interruption between  *)
(* two `await db.query(...)`: the segment that ends by issuing a query,    *)
(* and the segment that resumes when the store resolves or rejects it.     *)
(* Segments of different requests interleave freely.                       *)
(*                                                                         *)
(* JavaScript values are modelled as strings, objects as functions from    *)
(* their own property names to values; a property that is absent is absent *)
(* from the DOMAIN.  Undefined and Null stand for `undefined` and for SQL   *)
(* NULL; no submitted text equals either.                                  *)
(***************************************************************************)
EXTENDS Integers, Sequences, FiniteSets, TLC

VARIABLES
    session,          \* req.session of each request
    body,             \* req.body of each request (parsed form payload)
    pc,               \* where each request's handler stands
    newAssessmentId,  \* the handler's local newAssessmentId (0: not yet assigned)
    idx,              \* position of the for-of loop over `questions`
    queries,          \* the db.query calls each request has issued, in order
    warned,           \* what each request passed to console.warn, in order
    flash,            \* the req.flash(type, message) calls of each request
    redirect,         \* the res.redirect target of each request
    parents,          \* the tables quizzes, tests, q_assignments: sequences of rows
    questionRows,     \* the table questions: a sequence of rows
    written           \* history: for each request, the question rows it inserted
                      \* (row id, position of the question in the payload)

vars == <<session, body, pc, newAssessmentId, idx, queries, warned, flash,
          redirect, parents, questionRows, written>>

-----------------------------------------------------------------------------
(* Bounds *)

MaxQuestions == 3
NumRequests == 2
ConcMaxQuestions == 2

Requests == 1..NumRequests

-----------------------------------------------------------------------------
(* JavaScript values and property access *)

Undefined == "<undefined>"
Null == "<null>"
EmptyObject == <<>>

\* What Function.prototype.toString gives for the Object constructor; pg's
\* prepareValue sends a function parameter as this text.
ObjectConstructor == "function Object() { [native code] }"

\* Property names every object inherits from Object.prototype (the body parser
\* never creates them as own properties).
InheritedKeys == {"constructor"}

\* obj.name for an own property of a parsed payload object.
Get(obj, name) == IF name \in DOMAIN obj THEN obj[name] ELSE Undefined

\* The property key that a value used in obj[value] is converted to.
ToPropertyKey(v) == IF v = Undefined THEN "undefined" ELSE v

\* !!v
Truthy(v) == v \notin {Undefined, Null, ""}

\* a || b
Or(a, b) == IF Truthy(a) THEN a ELSE b

\* optionsObject[correctIndex]: own properties first, then the prototype chain.
GetProp(obj, key) ==
    LET k == ToPropertyKey(key)
    IN  IF k \in DOMAIN obj THEN obj[k]
        ELSE IF k \in InheritedKeys THEN ObjectConstructor
        ELSE Undefined

\* Own keys in the order JSON.stringify visits them: integer-like keys
\* ascending, then the other keys.
KeyOrder == <<"0", "1", "undefined">>

RECURSIVE StringifyFrom(_, _)
StringifyFrom(obj, i) ==
    IF i > Len(KeyOrder) THEN <<>>
    ELSE IF KeyOrder[i] \in DOMAIN obj
         THEN <<<<KeyOrder[i], obj[KeyOrder[i]]>>>> \o StringifyFrom(obj, i + 1)
         ELSE StringifyFrom(obj, i + 1)

\* JSON.stringify(optionsObject): the key/text pairs, in key order.
Stringify(obj) == StringifyFrom(obj, 1)

-----------------------------------------------------------------------------
(* Request payloads *)

RECURSIVE SeqsUpTo(_, _)
SeqsUpTo(S, n) ==
    IF n = 0 THEN {<<>>}
    ELSE LET shorter == SeqsUpTo(S, n - 1)
         IN  shorter \cup {Append(qs, q) : qs \in {s \in shorter : Len(s) = n - 1}, q \in S}

Sessions ==
    {EmptyObject, [user |-> [role |-> "student"]], [user |-> [role |-> "teacher"]]}

Capitals == "0" :> "Rome" @@ "1" :> "Paris"

\* Option "1" left blank, and an option submitted under the key "undefined".
Blanked == "0" :> "Rome" @@ "1" :> "" @@ "undefined" :> "Oslo"

\* The questions a payload is made of: every way the answer lookup can go.
QuestionPool ==
    { [text |-> "capital", options |-> Capitals, correct |-> "0"],
      [text |-> "capital", options |-> Capitals, correct |-> "1"],
      [text |-> "capital", options |-> Blanked, correct |-> "1"],
      [text |-> "capital", options |-> Capitals, correct |-> "9"],
      [text |-> "capital", options |-> Capitals],
      [text |-> "capital", options |-> Blanked],
      [text |-> "capital", options |-> Capitals, correct |-> "constructor"],
      [text |-> "capital", correct |-> "1"] }

ConcQuestion(k) ==
    [text |-> "capital", options |-> Capitals, correct |-> k]

ConcQuestionPool == {ConcQuestion("1")}

BaseFields == [title |-> "Geography", description |-> "Capitals", classroom_id |-> "7"]

TypeFields ==
    {EmptyObject} \cup
    {[assessment_type |-> t] : t \in {"quiz", "test", "q_assignment", "survey"}}

DueFields == {EmptyObject} \cup {[due_date |-> d] : d \in {"", "2025-06-01"}}

QuestionsFields(pool, n) == {EmptyObject} \cup {[questions |-> qs] : qs \in SeqsUpTo(pool, n)}

Bodies ==
    {BaseFields @@ t @@ d @@ q :
        t \in TypeFields, d \in DueFields, q \in QuestionsFields(QuestionPool, MaxQuestions)}

ConcBodies ==
    {BaseFields @@ [assessment_type |-> t] @@ [questions |-> qs] :
        t \in {"quiz"}, qs \in SeqsUpTo(ConcQuestionPool, ConcMaxQuestions)}

\* The requests that run concurrently: a teacher's well-typed submissions, one
\* of them with a question the loop skips, a teacher's submission with an
\* unknown tag, and a student's submission.
ConcRequests ==
    {[session |-> [user |-> [role |-> "teacher"]], body |-> b] : b \in ConcBodies}
    \cup {[session |-> [user |-> [role |-> "teacher"]],
           body |-> BaseFields @@ [assessment_type |-> "test"]
                    @@ [questions |-> <<ConcQuestion("9"), ConcQuestion("1")>>]],
          [session |-> [user |-> [role |-> "teacher"]],
           body |-> BaseFields @@ [assessment_type |-> "survey"]],
          [session |-> [user |-> [role |-> "student"]],
           body |-> BaseFields @@ [assessment_type |-> "quiz"]]}

-----------------------------------------------------------------------------
(* The handler's pure steps *)

\* A gate that checks the session user but not the role.
AuthorizedAnyUser(s) == "user" \in DOMAIN s

\* The gate lets through: a session user whose role is teacher.
Authorized(s) == "user" \in DOMAIN s /\ s.user.role = "teacher"

Invalid == "<invalid>"

\* A chain whose final else falls back to quizzes instead of throwing.
AssessmentTableDefault(tag) ==
    CASE tag = "test" -> "tests"
      [] tag = "q_assignment" -> "q_assignments"
      [] OTHER -> "quizzes"

\* The if / else-if chain that picks assessmentTable; Invalid is the throw.
AssessmentTable(tag) ==
    CASE tag = "quiz" -> "quizzes"
      [] tag = "test" -> "tests"
      [] tag = "q_assignment" -> "q_assignments"
      [] OTHER -> Invalid

\* const questions = req.body.questions || []
Questions(b) == IF "questions" \in DOMAIN b THEN b.questions ELSE <<>>

\* A parent INSERT that passes due_date for every type.
ParentQueryAlwaysDue(b) ==
    [table |-> AssessmentTable(Get(b, "assessment_type")),
     params |-> [title |-> Get(b, "title"), description |-> Get(b, "description"),
                 classroom_id |-> Get(b, "classroom_id"),
                 due_date |-> Or(Get(b, "due_date"), Null)]]

\* The parent INSERT of the request: its table, columns and parameters.
ParentQuery(b) ==
    LET tag == Get(b, "assessment_type")
        cols == [title |-> Get(b, "title"), description |-> Get(b, "description"),
                 classroom_id |-> Get(b, "classroom_id")]
    IN  IF tag = "q_assignment"
        THEN [table |-> AssessmentTable(tag),
              params |-> cols @@ [due_date |-> Or(Get(b, "due_date"), Null)]]
        ELSE [table |-> AssessmentTable(tag), params |-> cols]

\* const optionsObject = q.options || {}
OptionsObject(q) == IF "options" \in DOMAIN q THEN q.options ELSE EmptyObject

\* const correctAnswerText = optionsObject[q.correct]
CorrectAnswerText(q) == GetProp(OptionsObject(q), Get(q, "correct"))

\* The loop's test: the question is inserted unless !correctAnswerText.
Persisted(q) == Truthy(CorrectAnswerText(q))

\* A question INSERT that saves the index key instead of the option text.
QuestionQueryIndex(aid, tag, q) ==
    [table |-> "questions",
     params |-> [assessment_id |-> aid, assessment_type |-> tag,
                 question_text |-> Get(q, "text"),
                 options |-> Stringify(OptionsObject(q)),
                 correct_answer |-> Get(q, "correct")]]

\* The question INSERT for question q of a request with the given local id and tag.
QuestionQuery(aid, tag, q) ==
    [table |-> "questions",
     params |-> [assessment_id |-> aid, assessment_type |-> tag,
                 question_text |-> Get(q, "text"),
                 options |-> Stringify(OptionsObject(q)),
                 correct_answer |-> CorrectAnswerText(q)]]

\* From position i, the position of the first question the loop does not skip
\* (Len(qs) + 1 when it skips all that are left).
RECURSIVE NextPersisted(_, _)
NextPersisted(qs, i) ==
    IF i > Len(qs) THEN i
    ELSE IF Persisted(qs[i]) THEN i
    ELSE NextPersisted(qs, i + 1)

\* The texts console.warn receives while the loop skips positions i .. j-1.
SkippedTexts(qs, i, j) == [k \in 1..(j - i) |-> Get(qs[i + k - 1], "text")]

-----------------------------------------------------------------------------
(* The store *)

ParentTables == {"quizzes", "tests", "q_assignments"}

\* INSERT ... RETURNING id: the row the table gains, with the next serial id.
InsertedRow(table, params) == [id |-> Len(table) + 1] @@ params

\* Rows of an earlier authoring session, already in the store.
SeedParents ==
    [quizzes |-> <<[id |-> 1, title |-> "Rivers", description |-> "Old quiz",
                    classroom_id |-> "7"]>>,
     tests |-> <<>>,
     q_assignments |-> <<>>]

SeedQuestions ==
    <<[id |-> 1, assessment_id |-> 1, assessment_type |-> "quiz",
       question_text |-> "longest river",
       options |-> Stringify("0" :> "Nile" @@ "1" :> "Rhine"),
       correct_answer |-> "Nile"]>>

-----------------------------------------------------------------------------
(* Initial states *)

InitHandlers ==
    /\ newAssessmentId = [r \in Requests |-> 0]
    /\ idx = [r \in Requests |-> 0]
    /\ queries = [r \in Requests |-> <<>>]
    /\ warned = [r \in Requests |-> <<>>]
    /\ flash = [r \in Requests |-> <<>>]
    /\ redirect = [r \in Requests |-> Undefined]
    /\ written = [r \in Requests |-> <<>>]
    /\ parents = SeedParents
    /\ questionRows = SeedQuestions

\* One request, with any session and any payload; the other requests never arrive.
Init ==
    /\ \E s \in Sessions, b \in Bodies :
          /\ session = [r \in Requests |-> IF r = 1 THEN s ELSE EmptyObject]
          /\ body = [r \in Requests |-> IF r = 1 THEN b ELSE EmptyObject]
    /\ pc = [r \in Requests |-> IF r = 1 THEN "received" ELSE "none"]
    /\ InitHandlers

\* Every request arrives.
ConcInit ==
    /\ \E req \in [Requests -> ConcRequests] :
          /\ session = [r \in Requests |-> req[r].session]
          /\ body = [r \in Requests |-> req[r].body]
    /\ pc = [r \in Requests |-> "received"]
    /\ InitHandlers

-----------------------------------------------------------------------------
(* The handler's segments *)

Tag(r) == Get(body[r], "assessment_type")

\* The query request r is awaiting: the last one it issued.
Pending(r) == queries[r][Len(queries[r])]

\* req.flash(type, message); res.redirect(target); the handler returns.
Respond(r, notice, target) ==
    /\ flash' = [flash EXCEPT ![r] = Append(@, notice)]
    /\ redirect' = [redirect EXCEPT ![r] = target]
    /\ pc' = [pc EXCEPT ![r] = "done"]

\* The catch block.
Catch(r) ==
    Respond(r, <<"error", "There was an error creating the assessment.">>,
            "/teacher/create-assessment")

\* A loop that throws on a question without an answer instead of skipping it.
RunLoopAbortOnSkip(r, i, aid) ==
    LET qs == Questions(body[r])
    IN  IF i <= Len(qs) /\ ~Persisted(qs[i])
        THEN /\ Catch(r)
             /\ UNCHANGED <<idx, warned, queries>>
        ELSE /\ idx' = [idx EXCEPT ![r] = i]
             /\ UNCHANGED warned
             /\ IF i <= Len(qs)
                THEN /\ queries' = [queries EXCEPT
                                        ![r] = Append(@, QuestionQuery(aid, Tag(r), qs[i]))]
                     /\ pc' = [pc EXCEPT ![r] = "awaitQuestion"]
                     /\ UNCHANGED <<flash, redirect>>
                ELSE /\ Respond(r, <<"success", Tag(r)>>, "/dashboard")
                     /\ UNCHANGED queries

\* The for-of loop from position i, with newAssessmentId = aid, up to its next
\* await or to the end of the try block.
RunLoop(r, i, aid) ==
    LET qs == Questions(body[r])
        j == NextPersisted(qs, i)
    IN  /\ idx' = [idx EXCEPT ![r] = j]
        /\ warned' = [warned EXCEPT ![r] = @ \o SkippedTexts(qs, i, j)]
        /\ IF j <= Len(qs)
           THEN /\ queries' = [queries EXCEPT ![r] = Append(@, QuestionQuery(aid, Tag(r), qs[j]))]
                /\ pc' = [pc EXCEPT ![r] = "awaitQuestion"]
                /\ UNCHANGED <<flash, redirect>>
           ELSE /\ Respond(r, <<"success", Tag(r)>>, "/dashboard")
                /\ UNCHANGED queries

\* The id a shared "latest id of the table" would give instead of the local.
LatestParentId(r) == Len(parents[AssessmentTable(Tag(r))])

\* newAssessmentId as the loop body reads it: the handler's own local.
LoopAssessmentId(r) == newAssessmentId[r]

\* The gate turns the request away.
Reject(r) ==
    /\ pc[r] = "received"
    /\ ~Authorized(session[r])
    /\ redirect' = [redirect EXCEPT ![r] = "/login"]
    /\ pc' = [pc EXCEPT ![r] = "done"]
    /\ UNCHANGED <<session, body, newAssessmentId, idx, queries, warned, flash,
                   parents, questionRows, written>>

\* The tag names no table: the throw, caught by the catch block.
InvalidType(r) ==
    /\ pc[r] = "received"
    /\ Authorized(session[r])
    /\ AssessmentTable(Tag(r)) = Invalid
    /\ Catch(r)
    /\ UNCHANGED <<session, body, newAssessmentId, idx, queries, warned,
                   parents, questionRows, written>>

\* The handler issues the parent INSERT and awaits it.
IssueParentInsert(r) ==
    /\ pc[r] = "received"
    /\ Authorized(session[r])
    /\ AssessmentTable(Tag(r)) # Invalid
    /\ queries' = [queries EXCEPT ![r] = Append(@, ParentQuery(body[r]))]
    /\ pc' = [pc EXCEPT ![r] = "awaitParent"]
    /\ UNCHANGED <<session, body, newAssessmentId, idx, warned, flash, redirect,
                   parents, questionRows, written>>

\* The store inserts the parent row; the handler takes rows[0].id and runs the
\* loop to its first question INSERT, or to the end.
ParentInsertResolves(r) ==
    /\ pc[r] = "awaitParent"
    /\ LET q == Pending(r)
           row == InsertedRow(parents[q.table], q.params)
       IN  /\ parents' = [parents EXCEPT ![q.table] = Append(@, row)]
           /\ newAssessmentId' = [newAssessmentId EXCEPT ![r] = row.id]
           /\ RunLoop(r, 1, row.id)
    /\ UNCHANGED <<session, body, questionRows, written>>

\* A rejected parent INSERT that is swallowed: the loop runs without an id.
ParentInsertRejectsIgnored(r) ==
    /\ pc[r] = "awaitParent"
    /\ RunLoop(r, 1, 0)
    /\ UNCHANGED <<session, body, newAssessmentId, parents, questionRows, written>>

\* The store rejects the parent INSERT: the await throws into the catch block.
ParentInsertRejects(r) ==
    /\ pc[r] = "awaitParent"
    /\ Catch(r)
    /\ UNCHANGED <<session, body, newAssessmentId, idx, queries, warned,
                   parents, questionRows, written>>

\* The store inserts the question row; the loop goes on from the next question.
QuestionInsertResolves(r) ==
    /\ pc[r] = "awaitQuestion"
    /\ LET row == InsertedRow(questionRows, Pending(r).params)
       IN  /\ questionRows' = Append(questionRows, row)
           /\ written' = [written EXCEPT ![r] = Append(@, [id |-> row.id, pos |-> idx[r]])]
    /\ RunLoop(r, idx[r] + 1, LoopAssessmentId(r))
    /\ UNCHANGED <<session, body, newAssessmentId, parents>>

\* A rejected question INSERT that is treated like a skip: the loop goes on.
QuestionInsertRejectsAsSkip(r) ==
    /\ pc[r] = "awaitQuestion"
    /\ RunLoop(r, idx[r] + 1, LoopAssessmentId(r))
    /\ UNCHANGED <<session, body, newAssessmentId, parents, questionRows, written>>

\* The store rejects a question INSERT: the await throws into the catch block.
QuestionInsertRejects(r) ==
    /\ pc[r] = "awaitQuestion"
    /\ Catch(r)
    /\ UNCHANGED <<session, body, newAssessmentId, idx, queries, warned,
                   parents, questionRows, written>>

Next ==
    \E r \in Requests :
        \/ Reject(r)
        \/ InvalidType(r)
        \/ IssueParentInsert(r)
        \/ ParentInsertResolves(r)
        \/ ParentInsertRejects(r)
        \/ QuestionInsertResolves(r)
        \/ QuestionInsertRejects(r)

Spec == Init /\ [][Next]_vars

ConcSpec == ConcInit /\ [][Next]_vars

-----------------------------------------------------------------------------
(* Vocabulary of the properties *)

ValidTags == {"quiz", "test", "q_assignment"}

TableOf(tag) ==
    [quiz |-> "quizzes", test |-> "tests", q_assignment |-> "q_assignments"][tag]

Arrived(r) == pc[r] # "none"

Finished(r) == pc[r] = "done"

IsTeacher(r) == "user" \in DOMAIN session[r] /\ session[r].user.role = "teacher"

HasValidTag(r) ==
    "assessment_type" \in DOMAIN body[r] /\ body[r].assessment_type \in ValidTags

\* The question's `correct` names one of its own options, whose text is not empty.
Resolvable(q) ==
    /\ "correct" \in DOMAIN q
    /\ "options" \in DOMAIN q
    /\ q.correct \in DOMAIN q.options
    /\ q.options[q.correct] # ""

\* The positions of the questions a predicate selects, in submission order.
Positions(qs, Keep(_)) == SelectSeq([i \in 1..Len(qs) |-> i], LAMBDA i : Keep(qs[i]))

IsParentQuery(q) == q.table \in ParentTables

IsQuestionQuery(q) == q.table = "questions"

ParentQueries(r) == SelectSeq(queries[r], IsParentQuery)

QuestionQueries(r) == SelectSeq(queries[r], IsQuestionQuery)

\* The question rows request r has inserted, in insertion order.
RowsOf(r) == [k \in 1..Len(written[r]) |-> questionRows[written[r][k].id]]

\* The only request of Spec has written nothing to the store.
StoreUntouched == parents = SeedParents /\ questionRows = SeedQuestions

ParentInserted(r) == newAssessmentId[r] # 0

ParentRejected(r) == Finished(r) /\ Len(ParentQueries(r)) = 1 /\ ~ParentInserted(r)

\* A finished request with a question INSERT that never produced a row.
QuestionRejected(r) == Finished(r) /\ Len(QuestionQueries(r)) > Len(written[r])

ErrorReported(r) ==
    /\ Len(flash[r]) = 1
    /\ flash[r][1][1] = "error"
    /\ redirect[r] = "/teacher/create-assessment"

SuccessReported(r) ==
    /\ Len(flash[r]) = 1
    /\ flash[r][1][1] = "success"
    /\ redirect[r] = "/dashboard"

\* Request r has issued no query, and no row or local of it exists.
NothingAttempted(r) ==
    /\ queries[r] = <<>>
    /\ written[r] = <<>>
    /\ ~ParentInserted(r)

-----------------------------------------------------------------------------
(* C1 *)

InvalidTypeOutcome(r) ==
    /\ NothingAttempted(r)
    /\ StoreUntouched
    /\ Finished(r) => ErrorReported(r)

\* C1, as stated: every request whose assessment_type is not quiz, test or
\* q_assignment (or is absent) writes no parent row and no question row, and
\* ends with an error notice and a redirect back to the authoring form.
C1_AnyRequestInvalidType ==
    \A r \in Requests : (Arrived(r) /\ ~HasValidTag(r)) => InvalidTypeOutcome(r)

\* C1, amended: every request from a teacher's session whose assessment_type
\* is not quiz, test or q_assignment (or is absent) issues no query, writes no
\* parent row and no question row, and ends with an error notice and a
\* redirect back to the authoring form.
C1_InvalidTypeAborts ==
    \A r \in Requests :
        (Arrived(r) /\ IsTeacher(r) /\ ~HasValidTag(r)) => InvalidTypeOutcome(r)

C1_Witness ==
    \E r \in Requests :
        /\ Finished(r) /\ IsTeacher(r)
        /\ Get(body[r], "assessment_type") = "survey"
        /\ Len(Questions(body[r])) > 0
        /\ ErrorReported(r)

-----------------------------------------------------------------------------
(* C2 *)

\* C2: every question row a request has persisted comes from a submitted
\* question whose `correct` names one of its own options with non-empty text,
\* and its correct_answer is that text.
C2_PersistedAnswersResolve ==
    \A r \in Requests : \A k \in 1..Len(written[r]) :
        LET q == Questions(body[r])[written[r][k].pos]
            row == questionRows[written[r][k].id]
        IN  /\ Resolvable(q)
            /\ row.correct_answer = q.options[q.correct]
            /\ row.correct_answer # ""

-----------------------------------------------------------------------------
(* C3 *)

\* C3: a request with no session user, or with a user who is not a teacher,
\* issues no query, writes no row, produces no flash notice, and ends with a
\* redirect to /login.
C3_UnauthorizedStopsAtGate ==
    \A r \in Requests :
        (Arrived(r) /\ ~IsTeacher(r)) =>
            /\ NothingAttempted(r)
            /\ StoreUntouched
            /\ flash[r] = <<>>
            /\ warned[r] = <<>>
            /\ redirect[r] = IF Finished(r) THEN "/login" ELSE Undefined

C3_Witness ==
    \E r \in Requests :
        /\ Finished(r)
        /\ "user" \in DOMAIN session[r] /\ session[r].user.role = "student"
        /\ HasValidTag(r)
        /\ Len(Questions(body[r])) > 0
        /\ redirect[r] = "/login"

-----------------------------------------------------------------------------
(* C4 *)

AllResolvable(r) == \A i \in 1..Len(Questions(body[r])) : Resolvable(Questions(body[r])[i])

\* Request r has persisted exactly its N questions, each with the option text
\* as correct_answer, its own parent id and its own tag.
AllQuestionsPersisted(r) ==
    LET qs == Questions(body[r])
    IN  /\ Len(written[r]) = Len(qs)
        /\ Len(questionRows) = Len(SeedQuestions) + Len(qs)
        /\ \A k \in 1..Len(qs) :
              LET row == RowsOf(r)[k]
              IN  /\ written[r][k].pos = k
                  /\ row.correct_answer = qs[k].options[qs[k].correct]
                  /\ row.correct_answer # qs[k].correct
                  /\ row.question_text = qs[k].text
                  /\ row.assessment_id = newAssessmentId[r]
                  /\ row.assessment_type = body[r].assessment_type
        /\ \E p \in 1..Len(parents[TableOf(body[r].assessment_type)]) :
              /\ p > Len(SeedParents[TableOf(body[r].assessment_type)])
              /\ parents[TableOf(body[r].assessment_type)][p].id = newAssessmentId[r]

\* C4, as stated: a finished teacher's submission with a valid tag, whose
\* parent insert succeeded and whose N questions are all resolvable, has
\* persisted exactly N question rows.
C4_AllResolvableAllPersisted ==
    \A r \in Requests :
        (Finished(r) /\ IsTeacher(r) /\ HasValidTag(r) /\ ParentInserted(r)
            /\ AllResolvable(r))
        => AllQuestionsPersisted(r)

\* C4, amended: a finished teacher's submission with a valid tag, whose parent
\* insert succeeded, whose N questions are all resolvable and none of whose
\* question inserts the store rejected, has persisted exactly N question rows,
\* each with correct_answer equal to the option text (not the index key),
\* assessment_id equal to the id its parent insert returned and
\* assessment_type equal to the submitted tag.
C4_AllResolvableAllPersistedUnlessRejected ==
    \A r \in Requests :
        (Finished(r) /\ IsTeacher(r) /\ HasValidTag(r) /\ ParentInserted(r)
            /\ AllResolvable(r) /\ ~QuestionRejected(r))
        => AllQuestionsPersisted(r)

C4_Witness ==
    \E r \in Requests :
        /\ Finished(r) /\ IsTeacher(r) /\ HasValidTag(r) /\ ParentInserted(r)
        /\ AllResolvable(r) /\ ~QuestionRejected(r)
        /\ Len(Questions(body[r])) >= 2
        /\ Len(written[r]) = Len(Questions(body[r]))

-----------------------------------------------------------------------------
(* C5 *)

\* C5, as stated: a finished teacher's submission with a valid tag whose
\* parent insert succeeded ends with a success notice and a redirect to the
\* dashboard, however many of its questions were skipped.
C5_ParentInsertedMeansSuccess ==
    \A r \in Requests :
        (Finished(r) /\ IsTeacher(r) /\ HasValidTag(r) /\ ParentInserted(r))
        => SuccessReported(r)

\* C5, amended: a finished teacher's submission with a valid tag whose parent
\* insert succeeded and none of whose question inserts the store rejected ends
\* with a success notice and a redirect to the dashboard, however many of its
\* questions (all of them, or none submitted) lack a resolvable answer.
C5_SkipsNeverAbort ==
    \A r \in Requests :
        (Finished(r) /\ IsTeacher(r) /\ HasValidTag(r) /\ ParentInserted(r)
            /\ ~QuestionRejected(r))
        => SuccessReported(r)

C5_Witness ==
    \E r \in Requests :
        /\ Finished(r) /\ IsTeacher(r) /\ HasValidTag(r) /\ ParentInserted(r)
        /\ Len(Questions(body[r])) >= 2
        /\ \A i \in 1..Len(Questions(body[r])) : ~Resolvable(Questions(body[r])[i])
        /\ Len(warned[r]) = Len(Questions(body[r]))
        /\ written[r] = <<>>
        /\ SuccessReported(r)

-----------------------------------------------------------------------------
(* C6 *)

\* C6: when the store rejects the parent insert of a teacher's submission with
\* a valid tag, the request issues no question insert and writes no row, and
\* ends with an error notice and a redirect back to the authoring form.
C6_ParentRejectedNoQuestions ==
    \A r \in Requests :
        (IsTeacher(r) /\ HasValidTag(r) /\ ParentRejected(r)) =>
            /\ QuestionQueries(r) = <<>>
            /\ written[r] = <<>>
            /\ StoreUntouched
            /\ ErrorReported(r)

C6_Witness ==
    \E r \in Requests :
        /\ IsTeacher(r) /\ HasValidTag(r) /\ ParentRejected(r)
        /\ \E i \in 1..Len(Questions(body[r])) : Resolvable(Questions(body[r])[i])
        /\ ErrorReported(r)

-----------------------------------------------------------------------------
(* C7 *)

\* No due date was submitted: the field is absent or left blank.
NoDueDate(b) == "due_date" \notin DOMAIN b \/ b.due_date = ""

\* C7: a teacher's request with a valid tag issues exactly one parent insert,
\* into the table of its tag and into no other table; the insert writes a
\* due_date only for q_assignment: the submitted one, or null when none was
\* submitted (the field absent or blank).
C7_OneParentInsertByTag ==
    \A r \in Requests :
        (Arrived(r) /\ IsTeacher(r) /\ HasValidTag(r)) =>
            LET tag == body[r].assessment_type
                own == TableOf(tag)
                pqs == ParentQueries(r)
            IN  /\ Len(pqs) = IF pc[r] = "received" THEN 0 ELSE 1
                /\ \A t \in ParentTables \ {own} : parents[t] = SeedParents[t]
                /\ Len(parents[own]) =
                      Len(SeedParents[own]) + (IF ParentInserted(r) THEN 1 ELSE 0)
                /\ \A t \in {"quizzes", "tests"} : \A p \in 1..Len(parents[t]) :
                      "due_date" \notin DOMAIN parents[t][p]
                /\ \A i \in 1..Len(pqs) :
                      /\ pqs[i].table = own
                      /\ "due_date" \in DOMAIN pqs[i].params <=> tag = "q_assignment"
                      /\ tag = "q_assignment" =>
                            pqs[i].params.due_date =
                                IF NoDueDate(body[r]) THEN Null ELSE body[r].due_date
                /\ ParentInserted(r) =>
                      parents[own][Len(parents[own])] =
                          [id |-> newAssessmentId[r]] @@ pqs[1].params

C7_Witness ==
    \E r \in Requests :
        /\ Finished(r) /\ IsTeacher(r) /\ ParentInserted(r)
        /\ Get(body[r], "assessment_type") = "q_assignment"
        /\ Get(body[r], "due_date") = "2025-06-01"
        /\ Len(parents["q_assignments"]) = 1
        /\ parents["q_assignments"][1].due_date = "2025-06-01"

-----------------------------------------------------------------------------
(* C8 *)

\* C8: when the store rejects a question insert, the parent row and the
\* question rows the request had written stay in the store, no later question
\* is attempted (the rejected insert is the request's last query), and the
\* request ends with an error notice and a redirect back to the authoring form.
C8_QuestionRejectedKeepsRows ==
    \A r \in Requests :
        QuestionRejected(r) =>
            LET own == TableOf(body[r].assessment_type)
            IN  /\ \E p \in 1..Len(parents[own]) :
                      /\ p > Len(SeedParents[own])
                      /\ parents[own][p].id = newAssessmentId[r]
                /\ Len(questionRows) = Len(SeedQuestions) + Len(written[r])
                /\ \A k \in 1..Len(written[r]) :
                      /\ RowsOf(r)[k].id = written[r][k].id
                      /\ RowsOf(r)[k].assessment_id = newAssessmentId[r]
                      /\ written[r][k].pos < idx[r]
                /\ Len(QuestionQueries(r)) = Len(written[r]) + 1
                /\ IsQuestionQuery(Pending(r))
                /\ ErrorReported(r)

\* One row written, the next insert rejected, and a later question that the
\* loop would have inserted.
C8_Witness ==
    \E r \in Requests :
        /\ QuestionRejected(r)
        /\ Len(written[r]) = 1
        /\ idx[r] < Len(Questions(body[r]))
        /\ Persisted(Questions(body[r])[idx[r] + 1])
        /\ ErrorReported(r)

-----------------------------------------------------------------------------
(* C9 *)

\* C9: at every point, the question rows a request has written are, in
\* insertion order, a prefix of its submitted questions restricted to those
\* with a resolvable answer: in submission order, none twice.
C9_WrittenIsPrefixOfResolvable ==
    \A r \in Requests :
        LET qs == Questions(body[r])
            want == Positions(qs, Resolvable)
        IN  /\ Len(written[r]) <= Len(want)
            /\ \A k \in 1..Len(written[r]) :
                  /\ written[r][k].pos = want[k]
                  /\ RowsOf(r)[k].question_text = qs[want[k]].text
                  /\ RowsOf(r)[k].correct_answer = qs[want[k]].options[qs[want[k]].correct]
            /\ \A k, m \in 1..Len(written[r]) :
                  k < m => written[r][k].id < written[r][m].id

-----------------------------------------------------------------------------
(* C10 *)

\* The columns of a row other than its id.
Columns(row) == [c \in DOMAIN row \ {"id"} |-> row[c]]

\* The question rows request r writes when it runs alone and the store rejects
\* nothing: one per question the loop does not skip, in submission order.
AloneRows(r) ==
    LET qs == Questions(body[r])
        keep == Positions(qs, Persisted)
    IN  [k \in 1..Len(keep) |->
            [assessment_id |-> newAssessmentId[r],
             assessment_type |-> Tag(r),
             question_text |-> qs[keep[k]].text,
             options |-> Stringify(OptionsObject(qs[keep[k]])),
             correct_answer |-> CorrectAnswerText(qs[keep[k]])]]

\* C10: under every interleaving, each question row carries the id returned by
\* the parent insert of the request that submitted it and that request's tag,
\* so it references an existing parent row of the table of its type, a row no
\* other request created; and the rows a request has written are those it
\* writes when it runs alone (all of them once it ends with success).
C10_RequestsDoNotInterfere ==
    /\ \A r \in Requests :
          /\ LET alone == AloneRows(r)
                 n == Len(written[r])
             IN  /\ n <= Len(alone)
                 /\ [k \in 1..n |-> Columns(questionRows[written[r][k].id])]
                        = SubSeq(alone, 1, n)
                 /\ (Finished(r) /\ redirect[r] = "/dashboard") => n = Len(alone)
          /\ written[r] # <<>> => ParentInserted(r)
          /\ ParentInserted(r) =>
                \E p \in 1..Len(parents[TableOf(Tag(r))]) :
                    parents[TableOf(Tag(r))][p].id = newAssessmentId[r]
    /\ \A r1, r2 \in Requests :
          (r1 # r2 /\ ParentInserted(r1) /\ ParentInserted(r2)
              /\ Tag(r1) = Tag(r2))
          => newAssessmentId[r1] # newAssessmentId[r2]
    /\ \A i \in 1..Len(questionRows) :
          \E p \in 1..Len(parents[TableOf(questionRows[i].assessment_type)]) :
              parents[TableOf(questionRows[i].assessment_type)][p].id
                  = questionRows[i].assessment_id

\* Two requests of the same type, both ended with success, whose question
\* inserts alternated in the store.
C10_Witness ==
    \E r1, r2 \in Requests :
        /\ r1 # r2
        /\ Finished(r1) /\ Finished(r2)
        /\ redirect[r1] = "/dashboard" /\ redirect[r2] = "/dashboard"
        /\ Tag(r1) = Tag(r2)
        /\ Len(written[r1]) = 2 /\ Len(written[r2]) = 2
        /\ written[r1][1].id < written[r2][1].id
        /\ written[r2][1].id < written[r1][2].id
        /\ written[r1][2].id < written[r2][2].id

====
